---- MODULE Spec2Model ----
(***************************************************************************)
(* A model of plugins/python/python.py, the HexChat Python scripting       *)
(* bridge: the output redirector (Stdout), the argument marshalling        *)
(* (wordlist_len, create_wordlist, create_wordeollist), and the plugin /   *)
(* hook lifecycle (Plugin, Hook, load_filename, unload_name, reload_name,  *)
(* the timer and command trampolines, exec_in_interp, _on_plugin_deinit).  *)
(*                                                                         *)
(* Text is a sequence of code points, bytes are a sequence of 0..255.      *)
(***************************************************************************)
EXTENDS Integers, Sequences, FiniteSets, TLC

VARIABLES
    pc,      \* position of the pure-function harnesses: "input" | "done"
    arg,     \* the argument of the last call of a pure function
    ret,     \* what the last call returned (or the host prints it issued)
    buffer,  \* Stdout.buffer, the bytes retained by the output redirector
    phase,          \* the bridge: "unloaded" | "active" | "failed" | "deinit"
    hexchat,        \* the global hexchat: TRUE once the module is imported
    hexchat_stdout, \* the global hexchat_stdout: TRUE once it is a Stdout
    local_interp,   \* the global local_interp: a Plugin id, 0 for None
    sys_stdout,     \* sys.stdout and sys.stderr, which are set together
    plugins,        \* the global plugins: the set of active Plugin ids
    plugin_objs,    \* the Plugin objects ever made, by id
    hook_objs,      \* the Hook objects ever made, by id
    host_commands,  \* the host: commands the bridge itself has hooked
    host_hooks,     \* the host: native hook handles now registered
    host_gui,       \* the host: plugin-list GUI entries now shown
    unhook_calls,   \* history: lib.hexchat_unhook calls made, by Hook id
    trace,          \* history: what the last handler did, in order
    last            \* history: the last handler, its input and its result

pureVars == <<pc, arg, ret, buffer>>

lifeVars == <<phase, hexchat, hexchat_stdout, local_interp, sys_stdout, plugins,
              plugin_objs, hook_objs, host_commands, host_hooks, host_gui,
              unhook_calls, trace, last>>

vars == <<pc, arg, ret, buffer, phase, hexchat, hexchat_stdout, local_interp,
          sys_stdout, plugins, plugin_objs, hook_objs, host_commands, host_hooks,
          host_gui, unhook_calls, trace, last>>

(***************************************************************************)
(* Bounds of the model.                                                    *)
(***************************************************************************)
MaxWords == 3       \* longest word list given to create_wordeollist
MaxWrite == 2       \* longest generated text given to Stdout.write
MaxBuffer == 16     \* most bytes in flight in Stdout.buffer
MaxPluginObjs == 2  \* Plugin objects made in one run
MaxHookObjs == 2    \* Hook objects made in one run
MaxScriptHooks == 2 \* hooks one run of a script's top-level code adds

(***************************************************************************)
(* Text and bytes.                                                         *)
(***************************************************************************)
NL == 10            \* b'\n'
SP == 32            \* ' '

\* str.encode(): UTF-8, one byte below 128, two bytes below 2048
EncodeChar(c) == IF c < 128 THEN <<c>> ELSE <<192 + (c \div 64), 128 + (c % 64)>>

RECURSIVE Encode(_)
Encode(s) == IF s = <<>> THEN <<>> ELSE EncodeChar(Head(s)) \o Encode(Tail(s))

\* bytes.decode(): the inverse on well-formed input (the host hands out UTF-8)
RECURSIVE __decode(_)
__decode(b) ==
    IF b = <<>> THEN <<>>
    ELSE IF b[1] < 128 THEN <<b[1]>> \o __decode(Tail(b))
    ELSE <<(b[1] - 192) * 64 + (b[2] - 128)>> \o __decode(Tail(Tail(b)))

\* bytes.rfind(c): the 0-based index of the last c, -1 when there is none
RECURSIVE RFindFrom(_, _, _)
RFindFrom(s, c, i) ==
    IF i = 0 THEN -1
    ELSE IF s[i] = c THEN i - 1
    ELSE RFindFrom(s, c, i - 1)

rfind(s, c) == RFindFrom(s, c, Len(s))

(***************************************************************************)
(* class Stdout                                                            *)
(***************************************************************************)
\* bytes.find(c): the 0-based index of the first c, -1 when there is none
RECURSIVE FindFrom(_, _, _)
FindFrom(s, c, i) ==
    IF i > Len(s) THEN -1
    ELSE IF s[i] = c THEN i - 1
    ELSE FindFrom(s, c, i + 1)

\* Stdout.write with string.find for string.rfind
Stdout_write_find(buf, text) ==
    LET string == Encode(text)
        idx == FindFrom(string, NL, 1)
    IN  IF idx # -1
        THEN [buffer |-> SubSeq(string, idx + 2, Len(string)),
              prints |-> <<buf \o SubSeq(string, 1, idx)>>]
        ELSE [buffer |-> buf \o string, prints |-> <<>>]

\* Stdout.write: the new buffer and the host prints issued, from the old
\* buffer and the text written
Stdout_write(buf, text) ==
    LET string == Encode(text)
        idx == rfind(string, NL)
    IN  IF idx # -1
        THEN [buffer |-> SubSeq(string, idx + 2, Len(string)),
              prints |-> <<buf \o SubSeq(string, 1, idx)>>]
        ELSE [buffer |-> buf \o string, prints |-> <<>>]

(***************************************************************************)
(* Argument marshalling.  The host hands out arrays of 32 byte strings;    *)
(* slot 0 is unused, an unused slot is the empty string.                   *)
(***************************************************************************)
LastSlot == 31      \* range(31, 1, -1): the first index scanned
ScanStop == 1       \* range(31, 1, -1): the scan stops before this index

\* wordlist_len: the highest index in range(31, 1, -1) holding a non-empty
\* string, 0 when the range holds none
RECURSIVE wordlist_scan(_, _)
wordlist_scan(words, i) ==
    IF i <= ScanStop THEN 0
    ELSE IF words[i] # <<>> THEN i
    ELSE wordlist_scan(words, i - 1)

wordlist_len(words) == wordlist_scan(words, LastSlot)

\* create_wordlist: slots 1..size, decoded
create_wordlist(words) ==
    LET size == wordlist_len(words)
    IN  [i \in 1..size |-> __decode(words[i])]

None == <<-1>>      \* Python's None, where a text may stand too

\* the loop of create_wordeollist over reversed(words): i is the index of the
\* next word, accum the suffix joined so far, out the list being built
RECURSIVE wordeol_loop_append(_, _, _)
wordeol_loop_append(words, i, st) ==
    IF i = 0 THEN st.ret
    ELSE LET word == words[i]
             accum == IF st.accum = None THEN word
                      ELSE IF word # <<>> THEN word \o <<SP>> \o st.accum
                      ELSE st.accum
         IN  wordeol_loop_append(words, i - 1,
                 [accum |-> accum, ret |-> st.ret \o <<accum>>])

RECURSIVE wordeol_loop(_, _, _)
wordeol_loop(words, i, st) ==
    IF i = 0 THEN st.ret
    ELSE LET word == words[i]
             accum == IF st.accum = None THEN word
                      ELSE IF word # <<>> THEN word \o <<SP>> \o st.accum
                      ELSE st.accum
         IN  wordeol_loop(words, i - 1,
                 [accum |-> accum, ret |-> <<accum>> \o st.ret])

\* create_wordeollist with ret.append(accum) for ret.insert(0, accum)
create_wordeollist_append(words) ==
    wordeol_loop_append(words, Len(words), [accum |-> None, ret |-> <<>>])

create_wordeollist(words) ==
    wordeol_loop(words, Len(words), [accum |-> None, ret |-> <<>>])

(***************************************************************************)
(* File names.  A name is the sequence of its path components, each a    *)
(* pair <<stem, extension>>; Root comes first when the path is absolute;   *)
(* a plain name is one component; '' is the empty sequence; a path that    *)
(* ends in a separator ends in the component Empty.                        *)
(***************************************************************************)
Root == <<"/", "">>
Tilde == <<"~", "">>
Empty == <<"", "">>
Home == <<Root, <<"home", "">>>>       \* what os.path.expanduser puts for "~"
ConfigDir == <<Root, <<"cfg", "">>>>   \* hexchat_get_info(ph, 'configdir')
Addons == <<<<"addons", "">>>>

expanduser(f) == IF f # <<>> /\ f[1] = Tilde THEN Home \o Tail(f) ELSE f

isabs(f) == f # <<>> /\ f[1] = Root

join(a, b) == IF isabs(b) THEN b
              ELSE IF b = <<>> THEN a \o <<Empty>>
              ELSE a \o b

basename(f) == IF f = <<>> \/ f[Len(f)] = Empty THEN <<>> ELSE <<f[Len(f)]>>

\* str.endswith('.py')
endswith_py(f) == f # <<>> /\ f[Len(f)][2] = ".py"

\* load_filename, its first lines: the resolved file name
resolve(filename) ==
    LET f == expanduser(filename)
    IN  IF ~isabs(f) THEN join(join(ConfigDir, Addons), f) ELSE f

(***************************************************************************)
(* The objects.  The bridge's state is handled as one record w, so that a  *)
(* handler can be composed of the functions it calls:                      *)
(*   plugins, plugin_objs, hook_objs, local_interp   the Python side       *)
(*   host_hooks, host_gui                            the host side         *)
(*   unhook_calls, trace                             history               *)
(*   result      what load, unload, reload or the console returned         *)
(*   code        the number the entry point handed back to the host        *)
(*   returned                what a call from script code gave the script  *)
(* An object is destroyed where CPython drops its last reference.          *)
(***************************************************************************)
PluginIds == 1..MaxPluginObjs
HookIds == 1..MaxHookObjs

NoPlugin == [state |-> "none", filename |-> <<>>, name |-> <<>>, ph |-> 0,
             hooks |-> {}, locals |-> {}]

NoHook == [state |-> "none", plugin |-> 0, callback |-> "", userdata |-> "",
           is_unload |-> FALSE, hexchat_hook |-> 0, kind |-> ""]

Ev(e, i) == [ev |-> e, id |-> i]

Log(w, e, i) == [w EXCEPT !.trace = Append(@, Ev(e, i))]

PluginsMade(w) == Cardinality({p \in PluginIds : w.plugin_objs[p].state # "none"})
HooksMade(w) == Cardinality({h \in HookIds : w.hook_objs[h].state # "none"})

\* redirected_stdout, the lines before the yield: sys.stdout and sys.stderr
\* are the redirector
redirected_stdout_enter(w) == [w EXCEPT !.sys_stdout = "hexchat_stdout"]

\* redirected_stdout, the lines after the yield: sys.stdout and sys.stderr
\* are sys.__stdout__ and sys.__stderr__.  There is no try/finally around
\* the yield: when the body of the `with` raises, these lines do not run.
redirected_stdout_exit(w) == [w EXCEPT !.sys_stdout = "__stdout__"]

\* script code goes on after a call into the bridge has returned to it
Resume(w, h) ==
    Log(w, IF w.sys_stdout = "hexchat_stdout" THEN "resume" ELSE "resume_plain", h)

\* a freed Hook: of its fields only the history of its registration is kept
Freed(hk) == [NoHook EXCEPT !.state = "dead", !.plugin = hk.plugin,
                            !.is_unload = hk.is_unload,
                            !.hexchat_hook = hk.hexchat_hook]

\* Hook.__init__: a live Hook, not yet registered with the host
Hook__init__(w, h, plugin, callback, userdata, is_unload) ==
    [w EXCEPT !.hook_objs[h] =
        [state |-> "live", plugin |-> plugin, callback |-> callback,
         userdata |-> userdata, is_unload |-> is_unload, hexchat_hook |-> 0,
         kind |-> ""]]

\* Hook.__del__ with the test of is_unload inverted
Hook__del__inverted(w, h) ==
    LET hk == w.hook_objs[h]
        dead == [w EXCEPT !.hook_objs[h] = Freed(hk)]
    IN  IF hk.is_unload = TRUE /\ hk.hexchat_hook # 0
        THEN Log([dead EXCEPT !.host_hooks = @ \ {hk.hexchat_hook},
                              !.unhook_calls[h] = @ + 1], "unhook", h)
        ELSE dead

\* Hook.__del__: unhooks the native handle unless is_unload is set; the
\* assert fails, and is ignored as any exception of a finalizer, when the
\* handle is None
Hook__del__(w, h) ==
    LET hk == w.hook_objs[h]
        dead == [w EXCEPT !.hook_objs[h] = Freed(hk)]
    IN  IF hk.is_unload = FALSE /\ hk.hexchat_hook # 0
        THEN Log([dead EXCEPT !.host_hooks = @ \ {hk.hexchat_hook},
                              !.unhook_calls[h] = @ + 1], "unhook", h)
        ELSE dead

RECURSIVE del_hooks(_, _)
del_hooks(w, hs) ==
    IF hs = <<>> THEN w ELSE del_hooks(Hook__del__(w, Head(hs)), Tail(hs))

\* Plugin.__init__
Plugin__init__(w, p) ==
    [w EXCEPT !.plugin_objs[p] = [NoPlugin EXCEPT !.state = "live"]]

\* Plugin.add_hook
add_hook(w, p, h, callback, userdata, is_unload) ==
    LET w1 == Hook__init__(w, h, p, callback, userdata, is_unload)
    IN  [w1 EXCEPT !.plugin_objs[p].hooks = @ \cup {h}]

\* Plugin.remove_hook(hook): hook is the integer handle id(h) of a Hook.
\* When a Hook of the set has that id, `ud = hook.userdata` reads an
\* attribute of the integer and raises AttributeError before anything is
\* removed; otherwise 'Hook not found' is printed and None returned.
remove_hook(w, p, hook) ==
    IF \E h \in w.plugin_objs[p].hooks : h = hook
    THEN [w EXCEPT !.returned = "AttributeError"]
    ELSE [Log(w, "print_not_found", hook) EXCEPT !.returned = "None"]

\* the callbacks of the unload hooks, in the order the set is iterated; a
\* raising callback is caught and the loop goes on
RECURSIVE run_unload_hooks(_, _)
run_unload_hooks(w, order) ==
    IF order = <<>> THEN w
    ELSE LET h == Head(order)
             hk == w.hook_objs[h]
             w0 == Log(redirected_stdout_enter(w), "callback", h)
             w1 == IF hk.is_unload = TRUE
                   THEN redirected_stdout_exit(
                            IF hk.callback = "raise" THEN Log(w0, "caught", h)
                            ELSE w0)
                   ELSE w
         IN  run_unload_hooks(w1, Tail(order))

\* the same loop without the try/except: the first raising callback ends it
RECURSIVE run_unload_hooks_stop(_, _)
run_unload_hooks_stop(w, order) ==
    IF order = <<>> THEN w
    ELSE LET h == Head(order)
             hk == w.hook_objs[h]
             w0 == Log(redirected_stdout_enter(w), "callback", h)
         IN  IF hk.is_unload = TRUE /\ hk.callback = "raise"
             THEN w0
             ELSE run_unload_hooks_stop(
                      IF hk.is_unload = TRUE THEN redirected_stdout_exit(w0)
                      ELSE w,
                      Tail(order))

\* the order in which a set of Hooks is iterated: ord gives it
IterOrder(ord, S) == SelectSeq(ord, LAMBDA h : h \in S)

\* Plugin.__del__ with the try/except around the callback left out: the
\* first raising callback ends the loop
Plugin__del__nocatch(w, p, ord) ==
    LET order == IterOrder(ord, w.plugin_objs[p].hooks)
        n == Len(order)
        w1 == run_unload_hooks_stop(Log(w, "del_plugin", p), order)
        w2 == del_hooks(w1, SubSeq(order, 1, n - 1))
        w3 == IF w2.plugin_objs[p].ph # 0
              THEN Log([w2 EXCEPT !.host_gui = @ \ {w2.plugin_objs[p].ph}],
                       "gui_remove", p)
              ELSE w2
        w4 == IF n > 0 THEN Hook__del__(w3, order[n]) ELSE w3
    IN  [w4 EXCEPT !.plugin_objs[p] = [NoPlugin EXCEPT !.state = "dead"]]

\* Plugin.__del__ without `del self.hooks`: the hooks are leaked
Plugin__del__leak(w, p, ord) ==
    LET order == IterOrder(ord, w.plugin_objs[p].hooks)
        w1 == run_unload_hooks(Log(w, "del_plugin", p), order)
        w3 == IF w1.plugin_objs[p].ph # 0
              THEN Log([w1 EXCEPT !.host_gui = @ \ {w1.plugin_objs[p].ph}],
                       "gui_remove", p)
              ELSE w1
    IN  [w3 EXCEPT !.plugin_objs[p] = [NoPlugin EXCEPT !.state = "dead"]]

\* Plugin.__del__: runs the unload hooks; `del self.hooks` frees the set,
\* which destroys every Hook but the one the loop variable still holds;
\* removes the GUI entry; on return the loop variable's Hook is destroyed
Plugin__del__(w, p, ord) ==
    LET order == IterOrder(ord, w.plugin_objs[p].hooks)
        n == Len(order)
        w1 == run_unload_hooks(Log(w, "del_plugin", p), order)
        w2 == del_hooks(w1, SubSeq(order, 1, n - 1))
        w3 == IF w2.plugin_objs[p].ph # 0
              THEN Log([w2 EXCEPT !.host_gui = @ \ {w2.plugin_objs[p].ph}],
                       "gui_remove", p)
              ELSE w2
        w4 == IF n > 0 THEN Hook__del__(w3, order[n]) ELSE w3
    IN  [w4 EXCEPT !.plugin_objs[p] = [NoPlugin EXCEPT !.state = "dead"]]

(***************************************************************************)
(* What scripts do.  The top-level code of a file adds hooks and then      *)
(* ends well ("ok"), raises ("raise") or leaves __module_name__ unset      *)
(* ("noname"); "noread" is a file that cannot be read or compiled.         *)
(***************************************************************************)
HookKinds == {"command", "timer", "unload", "unload_raises"}
ModuleNames == {<<<<"alpha", "">>>>}

\* hexchat.hook_command / hook_timer / hook_unload of the hexchat module:
\* Plugin.add_hook and, unless the hook is an unload hook, the registration
\* of the trampoline with the host, whose handle is kept in hexchat_hook
hexchat_hook_any(w, p, kind, userdata) ==
    LET h == HooksMade(w) + 1
    IN  IF kind \in {"unload", "unload_raises"}
        THEN add_hook(w, p, h, IF kind = "unload" THEN "ok" ELSE "raise",
                      userdata, TRUE)
        ELSE Log([add_hook(w, p, h, "cb", userdata, FALSE) EXCEPT
                     !.hook_objs[h].hexchat_hook = h,
                     !.hook_objs[h].kind = kind,
                     !.host_hooks = @ \cup {h}], "hook", h)

\* exec(compiled, self.globals): the hooks the top-level code adds
RECURSIVE exec_toplevel(_, _, _, _)
exec_toplevel(w, p, kinds, userdata) ==
    IF kinds = <<>> THEN w
    ELSE exec_toplevel(hexchat_hook_any(w, p, Head(kinds), userdata), p,
                       Tail(kinds), userdata)

\* Plugin.loadfile
loadfile(w, p, filename, script) ==
    LET w0 == [redirected_stdout_enter(w) EXCEPT
                  !.plugin_objs[p].filename = filename]
        w2 == IF script.outcome = "noread"
              THEN [Log(w0, "print_failed", p) EXCEPT !.result = "False"]
              ELSE LET w1 == exec_toplevel(Log(w0, "exec", p), p, script.hooks,
                                           script.userdata)
                   IN  IF script.outcome \in {"raise", "noname"}
                       THEN [Log(w1, "print_failed", p) EXCEPT
                                !.result = "False"]
                       ELSE [Log([w1 EXCEPT !.plugin_objs[p].name = script.name,
                                            !.plugin_objs[p].ph = p,
                                            !.host_gui = @ \cup {p}],
                                 "gui_add", p) EXCEPT !.result = "True"]
    IN  redirected_stdout_exit(w2)

\* load_filename with the Plugin of a failed load kept alive
load_new_keep(w, filename, script, ord) ==
    LET p == PluginsMade(w) + 1
        w1 == loadfile(Plugin__init__(w, p), p, filename, script)
    IN  IF w1.result = "True"
        THEN [w1 EXCEPT !.plugins = @ \cup {p}]
        ELSE [w1 EXCEPT !.result = "False"]

\* the rest of load_filename, once the file name is resolved and not active;
\* a Plugin that is not added is destroyed when load_filename returns
load_new(w, filename, script, ord) ==
    LET p == PluginsMade(w) + 1
        w1 == loadfile(Plugin__init__(w, p), p, filename, script)
    IN  IF w1.result = "True"
        THEN [w1 EXCEPT !.plugins = @ \cup {p}]
        ELSE [Plugin__del__(w1, p, ord) EXCEPT !.result = "False"]

\* load_filename without the test for an active Plugin of that file name
load_filename_nocheck(w, filename, script, ord) ==
    load_new(w, resolve(filename), script, ord)

\* load_filename
load_filename(w, filename, script, ord) ==
    LET f == resolve(filename)
    IN  IF f # <<>> /\ ~\E p \in w.plugins : w.plugin_objs[p].filename = f
        THEN load_new(w, f, script, ord)
        ELSE [w EXCEPT !.result = "False"]

\* the test of unload_name and reload_name with every Plugin matching
matching_all(w, name) == w.plugins

\* the Plugins that `name in (plugin.name, plugin.filename,
\* os.path.basename(plugin.filename))` holds for
matching(w, name) ==
    {p \in w.plugins :
        \/ name = w.plugin_objs[p].name
        \/ name = w.plugin_objs[p].filename
        \/ name = basename(w.plugin_objs[p].filename)}

\* unload_name; pick is the first match in the order the set is iterated;
\* the Plugin is destroyed when unload_name returns
unload_name(w, name, pick, ord) ==
    IF name # <<>> /\ pick \in matching(w, name)
    THEN [Plugin__del__([w EXCEPT !.plugins = @ \ {pick}], pick, ord)
             EXCEPT !.result = "True"]
    ELSE [w EXCEPT !.result = "False"]

\* reload_name; the loop variable keeps the old Plugin alive until
\* reload_name returns, that is until load_filename is through
reload_name(w, name, pick, script, ord) ==
    IF name # <<>> /\ pick \in matching(w, name)
    THEN LET filename == w.plugin_objs[pick].filename
             w1 == [w EXCEPT !.plugins = @ \ {pick}]
             w2 == load_filename(w1, filename, script, ord)
         IN  [Plugin__del__(w2, pick, ord) EXCEPT !.result = w2.result]
    ELSE [w EXCEPT !.result = "False"]

\* autoload: load_filename for every entry of the add-on directory that
\* ends in '.py', in the order os.listdir gives
RECURSIVE autoload(_, _, _, _)
autoload(w, listing, scripts, ord) ==
    IF listing = <<>> THEN w
    ELSE LET f == Head(listing)
         IN  IF endswith_py(<<f>>)
             THEN autoload(
                      load_filename(Log(w, "print_autoloading", 0),
                                    join(join(ConfigDir, Addons), <<f>>),
                                    Head(scripts), ord),
                      Tail(listing), Tail(scripts), ord)
             ELSE autoload(w, Tail(listing), Tail(scripts), ord)

(***************************************************************************)
(* The console session.  A line is empty, adds a hook, raises, binds the  *)
(* name x (x = 1), uses it (print(x)), or does nothing the bridge sees.    *)
(***************************************************************************)
\* exec_in_interp with a namespace that is emptied at every line
exec_in_interp_reset(w, line) ==
    IF line.do = "empty" THEN [w EXCEPT !.result = "None"]
    ELSE LET p == PluginsMade(w) + 1
             w1 == IF w.local_interp = 0
                   THEN [Plugin__init__(w, p) EXCEPT !.local_interp = p,
                                                     !.plugin_objs[p].locals = {}]
                   ELSE [w EXCEPT !.plugin_objs[w.local_interp].locals = {}]
             c == w1.local_interp
             w2 == Log(redirected_stdout_enter(w1), "eval", c)
             w3 == IF line.do = "hook"
                   THEN hexchat_hook_any(w2, c, line.kind, line.userdata)
                   ELSE IF line.do = "raise"
                   THEN Log(w2, "print_exception", c)
                   ELSE IF line.do = "bind"
                   THEN [w2 EXCEPT !.plugin_objs[c].locals = @ \cup {"x"}]
                   ELSE IF line.do = "use"
                   THEN IF "x" \in w2.plugin_objs[c].locals
                        THEN Log(w2, "print_value", c)
                        ELSE Log(w2, "print_exception", c)
                   ELSE w2
         IN  [redirected_stdout_exit(w3) EXCEPT !.result = "None"]

\* exec_in_interp; the namespace of the session is local_interp.locals
exec_in_interp(w, line) ==
    IF line.do = "empty" THEN [w EXCEPT !.result = "None"]
    ELSE LET p == PluginsMade(w) + 1
             w1 == IF w.local_interp = 0
                   THEN [Plugin__init__(w, p) EXCEPT !.local_interp = p,
                                                     !.plugin_objs[p].locals = {}]
                   ELSE w
             c == w1.local_interp
             w2 == Log(redirected_stdout_enter(w1), "eval", c)
             w3 == IF line.do = "hook"
                   THEN hexchat_hook_any(w2, c, line.kind, line.userdata)
                   ELSE IF line.do = "raise"
                   THEN Log(w2, "print_exception", c)
                   ELSE IF line.do = "bind"
                   THEN [w2 EXCEPT !.plugin_objs[c].locals = @ \cup {"x"}]
                   ELSE IF line.do = "use"
                   THEN IF "x" \in w2.plugin_objs[c].locals
                        THEN Log(w2, "print_value", c)
                        ELSE Log(w2, "print_exception", c)
                   ELSE w2
         IN  [redirected_stdout_exit(w3) EXCEPT !.result = "None"]

(***************************************************************************)
(* The commands of the bridge.                                             *)
(***************************************************************************)
EAT_NONE == 0       \* hexchat.EAT_NONE
EAT_ALL == 3        \* hexchat.EAT_ALL

\* _on_load_command: LOAD <filename>
_on_load_command(w, filename, script, ord) ==
    IF endswith_py(filename)
    THEN [load_filename(w, filename, script, ord) EXCEPT !.code = EAT_ALL]
    ELSE [w EXCEPT !.code = EAT_NONE]

\* _on_unload_command with the test of the extension left out
_on_unload_command_any(w, filename, pick, ord) ==
    [unload_name(w, filename, pick, ord) EXCEPT !.code = EAT_ALL]

\* _on_unload_command: UNLOAD <filename>
_on_unload_command(w, filename, pick, ord) ==
    IF endswith_py(filename)
    THEN [unload_name(w, filename, pick, ord) EXCEPT !.code = EAT_ALL]
    ELSE [w EXCEPT !.code = EAT_NONE]

\* _on_reload_command: RELOAD <filename>
_on_reload_command(w, filename, pick, script, ord) ==
    IF endswith_py(filename)
    THEN [reload_name(w, filename, pick, script, ord) EXCEPT !.code = EAT_ALL]
    ELSE [w EXCEPT !.code = EAT_NONE]

\* the arguments of a /PY command and what the script it names does
PyArgs(name, pick, script, ord, line) ==
    [name |-> name, pick |-> pick, script |-> script, ord |-> ord,
     line |-> line]

\* _on_py_command: /PY EXEC | LOAD | UNLOAD | RELOAD ...
_on_py_command(w, subcmd, a) ==
    LET w1 == IF subcmd = "exec" THEN exec_in_interp(w, a.line)
              ELSE IF subcmd = "load"
              THEN load_filename(w, a.name, a.script, a.ord)
              ELSE IF subcmd = "unload"
              THEN unload_name(w, a.name, a.pick, a.ord)
              ELSE IF subcmd = "reload"
              THEN reload_name(w, a.name, a.pick, a.script, a.ord)
              ELSE w
    IN  [w1 EXCEPT !.code = EAT_ALL]

(***************************************************************************)
(* The trampolines.  What the callback does is the input: the value it     *)
(* returns, "raise", or a call back into the bridge.                       *)
(***************************************************************************)
TimerReturns == {"None", "True", "0", "1"}     \* None, True, 0, 1
CommandReturns == {"None", "3"}                \* None, hexchat.EAT_ALL

\* bool(value)
truthy(v) == v \in {"True", "1"}

\* to_cb_ret
to_cb_ret(v) ==
    IF v = "None" THEN EAT_NONE
    ELSE IF v \in {"True", "1"} THEN 1
    ELSE IF v = "3" THEN 3
    ELSE 0

\* what a function under @ffi.def_extern() returns when it raises
ExternError == 0

\* @ffi.def_extern(): an exception that leaves the function is written, as a
\* traceback, to sys.stderr as it then is, and the error value is returned
def_extern_error(w, h) ==
    [Log(w, IF w.sys_stdout = "hexchat_stdout" THEN "print_traceback"
            ELSE "stderr_traceback", h) EXCEPT !.code = ExternError]

\* _on_timer_hook: the Hook taken out of the set is destroyed on return
_on_timer_hook(w, h, v) ==
    LET w0 == Log(redirected_stdout_enter(w), "callback", h)
    IN  IF v = "raise" THEN Log(def_extern_error(w0, h), "return", h)
        ELSE IF v = "True"
        THEN Log([redirected_stdout_exit(w0) EXCEPT !.code = 1], "return", h)
        ELSE LET p == w0.hook_objs[h].plugin
                 w1 == [w0 EXCEPT !.hook_objs[h].is_unload = TRUE,
                                  !.plugin_objs[p].hooks = @ \ {h}]
                 w2 == Hook__del__(redirected_stdout_exit(w1), h)
             IN  Log([w2 EXCEPT !.code = 0], "return", h)

\* the host's timer: a timer whose callback returns 0 is stopped and freed
host_timer(w, h, v) ==
    LET w1 == _on_timer_hook(w, h, v)
    IN  IF w1.code = 0 THEN [w1 EXCEPT !.host_hooks = @ \ {h}] ELSE w1

\* _on_command_hook; the callback returns a value (do = "return"), raises,
\* calls hexchat.unhook(handle) and returns what it gave, adds a hook, or
\* runs /PY UNLOAD of its own Plugin's file or /PY LOAD of a file and then
\* returns None
_on_command_hook(w, h, cb) ==
    LET p == w.hook_objs[h].plugin
        w0 == Log(redirected_stdout_enter(w), "callback", h)
        return(x, v) ==
            Log([redirected_stdout_exit(x) EXCEPT !.code = v], "return", h)
    IN  IF cb.do = "raise" THEN Log(def_extern_error(w0, h), "return", h)
        ELSE IF cb.do = "unhook"
        THEN LET w1 == remove_hook(w0, p, cb.handle)
             IN  IF w1.returned = "AttributeError"
                 THEN Log(def_extern_error(w1, h), "return", h)
                 ELSE return(w1, to_cb_ret(w1.returned))
        ELSE IF cb.do = "hook"
        THEN return(hexchat_hook_any(w0, p, cb.kind, cb.userdata),
                    to_cb_ret("None"))
        ELSE IF cb.do \in {"unload", "load"}
        THEN return(Resume(_on_py_command(w0, cb.do, cb.args), h),
                    to_cb_ret("None"))
        ELSE return(w0, to_cb_ret(cb.value))

(***************************************************************************)
(* Activation and deactivation of the bridge.                              *)
(***************************************************************************)
BridgeCommands == {"", "LOAD", "UNLOAD", "RELOAD", "PY"}

\* _on_plugin_init with the failure of the import ignored
_on_plugin_init_anyway(w, import_ok, has_message, listing, scripts, ord) ==
    LET w1 == [w EXCEPT !.hexchat = TRUE,
                        !.hexchat_stdout = TRUE,
                        !.host_commands = BridgeCommands,
                        !.phase = "active"]
    IN  [autoload(w1, listing, scripts, ord) EXCEPT !.code = 1]

\* _on_plugin_init.  When the import fails the handler reads e.message,
\* which an exception has under Python 2 only: under Python 3 the handler
\* raises AttributeError in its turn and def_extern returns the error value
_on_plugin_init(w, import_ok, has_message, listing, scripts, ord) ==
    IF ~import_ok
    THEN IF has_message
         THEN [Log(w, "print_import_failed", 0) EXCEPT !.phase = "failed",
                                                        !.code = 0]
         ELSE [def_extern_error(w, 0) EXCEPT !.phase = "failed"]
    ELSE LET w1 == [w EXCEPT !.hexchat = TRUE,
                             !.hexchat_stdout = TRUE,
                             !.host_commands = BridgeCommands,
                             !.phase = "active"]
         IN  [autoload(w1, listing, scripts, ord) EXCEPT !.code = 1]

\* `plugins = set()`: the Plugins of the old set are destroyed one by one
RECURSIVE del_plugins(_, _, _)
del_plugins(w, ps, ord) ==
    IF ps = <<>> THEN w
    ELSE del_plugins(Plugin__del__(w, Head(ps), ord), Tail(ps), ord)

\* _on_plugin_deinit without `local_interp = None`
_on_plugin_deinit_keep_console(w, pord, ord) ==
    LET w1 == del_plugins([w EXCEPT !.plugins = {}], pord, ord)
    IN  [w1 EXCEPT !.hexchat = FALSE, !.hexchat_stdout = FALSE,
                   !.phase = "deinit", !.code = 1]

\* _on_plugin_deinit: `plugins = set()` frees the active Plugins and
\* `local_interp = None` the console session's Plugin
_on_plugin_deinit(w, pord, ord) ==
    LET w1 == del_plugins([w EXCEPT !.plugins = {}], pord, ord)
        w2 == IF w1.local_interp # 0
              THEN [Plugin__del__(w1, w1.local_interp, ord)
                       EXCEPT !.local_interp = 0]
              ELSE w1
    IN  [w2 EXCEPT !.hexchat = FALSE, !.hexchat_stdout = FALSE,
                   !.phase = "deinit", !.code = 1]

(***************************************************************************)
(* Inputs of the pure functions.                                           *)
(***************************************************************************)
TextAt(i, k) == IF (i + k) % 3 = 0 THEN <<97>>
                ELSE IF (i + k) % 3 = 1 THEN <<233>> ELSE <<97, 98>>

\* the array with slots 1..len filled, slot gap (if any) left empty
RawArray(len, k, gap) ==
    [i \in 0..LastSlot |->
        IF i >= 1 /\ i <= len /\ i # gap THEN Encode(TextAt(i, k)) ELSE <<>>]

RawArrays == {RawArray(len, k, gap) :
                 len \in 0..LastSlot, k \in 0..2, gap \in {0, 1, 2, 5}}

WordChoices == {<<>>, <<97>>, <<98>>, <<99>>}       \* "", "a", "b", "c"

RECURSIVE SeqsUpTo(_, _)
SeqsUpTo(S, n) ==
    IF n = 0 THEN {<<>>}
    ELSE LET shorter == SeqsUpTo(S, n - 1)
         IN  shorter \cup {Append(s, x) : s \in shorter, x \in S}

\* what create_wordlist can return: no list ends in an empty word
WordLists == {w \in SeqsUpTo(WordChoices, MaxWords) :
                 w = <<>> \/ w[Len(w)] # <<>>}

Partial == <<112, 97, 114, 116, 105, 97, 108>>                 \* "partial"
LineDone == <<108, 105, 110, 101, NL, 100, 111, 110, 101>>     \* "line\ndone"
PartialLine == <<112, 97, 114, 116, 105, 97, 108, 108, 105, 110, 101>>
Done == <<100, 111, 110, 101>>                                 \* "done"

WriteTexts == SeqsUpTo({97, NL, 233}, MaxWrite) \cup {Partial, LineDone}

(***************************************************************************)
(* Inputs of the handlers.                                                 *)
(***************************************************************************)
Perms(S) ==
    {s \in [1..Cardinality(S) -> S] :
        \A i, j \in 1..Cardinality(S) : s[i] = s[j] => i = j}

APy == <<"a", ".py">>
NotesTxt == <<"notes", ".txt">>

NoScript == [hooks |-> <<>>, userdata |-> "ud1", outcome |-> "noread",
             name |-> <<>>]

Scripts ==
    {NoScript}
    \cup {[hooks |-> hs, userdata |-> "ud1", outcome |-> o, name |-> <<>>] :
             hs \in SeqsUpTo(HookKinds, MaxScriptHooks),
             o \in {"raise", "noname"}}
    \cup {[hooks |-> hs, userdata |-> "ud1", outcome |-> "ok", name |-> n] :
             hs \in SeqsUpTo(HookKinds, MaxScriptHooks), n \in ModuleNames}

\* file names given to LOAD and /PY LOAD
LoadArgs == {<<APy>>, ConfigDir \o Addons \o <<APy>>, <<Tilde, APy>>, <<>>}

\* names given to UNLOAD, RELOAD, /PY UNLOAD and /PY RELOAD
NameArgs == {<<>>, <<APy>>, <<<<"alpha", "">>>>, <<<<"gamma", "">>>>,
             ConfigDir \o Addons \o <<APy>>}

\* what os.listdir gives for the add-on directory, with a script per file
DirFiles == {APy, NotesTxt}
DirListings == {s \in SeqsUpTo(DirFiles, 2) :
                   \A i, j \in 1..Len(s) : s[i] = s[j] => i = j}

\* a directory or a missing file cannot be read
readable(f) == f # <<>> /\ f[Len(f)] # Empty

NoLine == [do |-> "empty", kind |-> "", userdata |-> ""]

NoArgs == PyArgs(<<>>, 0, NoScript, <<>>, NoLine)

\* a script that adds no hook and sets __module_name__
PlainScript == [hooks |-> <<>>, userdata |-> "ud1", outcome |-> "ok",
                name |-> <<<<"alpha", "">>>>]

CallbackActs ==
    {[do |-> "return", value |-> v, handle |-> 0, kind |-> "", userdata |-> "",
      args |-> NoArgs] : v \in CommandReturns}
    \cup {[do |-> "raise", value |-> "", handle |-> 0, kind |-> "",
           userdata |-> "", args |-> NoArgs]}
    \cup {[do |-> "unhook", value |-> "", handle |-> x, kind |-> "",
           userdata |-> "", args |-> NoArgs] : x \in HookIds \cup {0}}
    \cup {[do |-> "hook", value |-> "", handle |-> 0, kind |-> k,
           userdata |-> "ud1", args |-> NoArgs] : k \in HookKinds}
    \cup {[do |-> "unload", value |-> "", handle |-> 0, kind |-> "",
           userdata |-> "", args |-> NoArgs]}
    \cup {[do |-> "load", value |-> "", handle |-> 0, kind |-> "",
           userdata |-> "",
           args |-> PyArgs(<<Tilde, APy>>, 0, PlainScript, <<>>, NoLine)]}

ConsoleLines ==
    {[do |-> d, kind |-> "", userdata |-> ""] :
        d \in {"empty", "plain", "raise", "bind", "use"}}
    \cup {[do |-> "hook", kind |-> k, userdata |-> "ud1"] : k \in HookKinds}

(***************************************************************************)
(* The bridge as a state machine: one action per entry point the host      *)
(* calls.                                                                  *)
(***************************************************************************)
\* the state at the start of a handler
World ==
    [phase |-> phase, hexchat |-> hexchat, hexchat_stdout |-> hexchat_stdout,
     local_interp |-> local_interp, sys_stdout |-> sys_stdout,
     plugins |-> plugins,
     plugin_objs |-> plugin_objs, hook_objs |-> hook_objs,
     host_commands |-> host_commands, host_hooks |-> host_hooks,
     host_gui |-> host_gui, unhook_calls |-> unhook_calls,
     trace |-> <<>>, result |-> "None", returned |-> "", code |-> -1]

\* what is kept of a handler: via is "py" for the /PY form of a command and
\* "generic" for the host's LOAD, UNLOAD or RELOAD; name is its argument
\* (for a load, the resolved file name); p and q are the Plugin it picked
\* and the Plugin it made
Op(op) == [op |-> op, via |-> "", name |-> <<>>, h |-> 0, v |-> "",
           handle |-> 0, p |-> 0, q |-> 0, result |-> "None", returned |-> "",
           code |-> -1]

Commit(w, l) ==
    /\ phase' = w.phase
    /\ hexchat' = w.hexchat
    /\ hexchat_stdout' = w.hexchat_stdout
    /\ local_interp' = w.local_interp
    /\ sys_stdout' = w.sys_stdout
    /\ plugins' = w.plugins
    /\ plugin_objs' = w.plugin_objs
    /\ hook_objs' = w.hook_objs
    /\ host_commands' = w.host_commands
    /\ host_hooks' = w.host_hooks
    /\ host_gui' = w.host_gui
    /\ unhook_calls' = w.unhook_calls
    /\ trace' = w.trace
    /\ last' = [l EXCEPT !.result = w.result, !.returned = w.returned,
                         !.code = w.code]
    /\ UNCHANGED pureVars

LifeInit ==
    /\ phase = "unloaded"
    /\ hexchat = FALSE              \* hexchat = None
    /\ hexchat_stdout = FALSE       \* hexchat_stdout = None
    /\ local_interp = 0             \* local_interp = None
    /\ sys_stdout = "__stdout__"
    /\ plugins = {}                 \* plugins = set()
    /\ plugin_objs = [p \in PluginIds |-> NoPlugin]
    /\ hook_objs = [h \in HookIds |-> NoHook]
    /\ host_commands = {}
    /\ host_hooks = {}
    /\ host_gui = {}
    /\ unhook_calls = [h \in HookIds |-> 0]
    /\ trace = <<>>
    /\ last = Op("none")

Init ==
    /\ LifeInit
    /\ pc = "input"
    /\ arg = <<>>
    /\ ret = <<>>
    /\ buffer = <<>>

\* the ids of the next n Hooks
NewHooks(n) == (HooksMade(World) + 1)..(HooksMade(World) + n)

RECURSIVE HooksOfScripts(_)
HooksOfScripts(scripts) ==
    IF scripts = <<>> THEN 0
    ELSE Len(Head(scripts).hooks) + HooksOfScripts(Tail(scripts))

\* the host activates the bridge
PluginInit ==
    /\ phase = "unloaded"
    /\ \E import_ok \in BOOLEAN, has_message \in BOOLEAN,
          listing \in DirListings :
       \E scripts \in [1..Len(listing) -> Scripts], ord \in Perms(HookIds) :
          /\ ~import_ok => listing = <<>>
          /\ import_ok => has_message
          /\ \A i \in 1..Len(listing) :
                ~endswith_py(<<listing[i]>>) => scripts[i] = NoScript
          /\ HooksOfScripts(scripts) <= MaxHookObjs
          /\ Commit(_on_plugin_init(World, import_ok, has_message, listing,
                                    scripts, ord),
                    [Op("init") EXCEPT
                        !.v = IF import_ok THEN "imported"
                              ELSE "import_error"])

\* /PY LOAD <file>
Load ==
    /\ phase = "active"
    /\ \E filename \in LoadArgs, script \in Scripts :
          LET f == resolve(filename)
              fresh == ~\E p \in plugins : plugin_objs[p].filename = f
          IN  /\ ~fresh => script.hooks = <<>>
              /\ ~readable(f) => script = NoScript
              /\ fresh => PluginsMade(World) < MaxPluginObjs
              /\ HooksMade(World) + Len(script.hooks) <= MaxHookObjs
              /\ \E ord \in Perms(IF script.outcome = "ok" THEN {}
                                  ELSE NewHooks(Len(script.hooks))) :
                    Commit(_on_py_command(World, "load",
                               PyArgs(filename, 0, script, ord, NoLine)),
                           [Op("load") EXCEPT
                               !.via = "py",
                               !.name = f,
                               !.q = IF fresh THEN PluginsMade(World) + 1 ELSE 0])

\* /PY UNLOAD <name>
Unload ==
    /\ phase = "active"
    /\ \E name \in NameArgs :
       \E pick \in IF name # <<>> /\ matching(World, name) # {}
                   THEN matching(World, name) ELSE {0} :
       \E ord \in Perms(IF pick = 0 THEN {} ELSE plugin_objs[pick].hooks) :
          Commit(_on_py_command(World, "unload",
                     PyArgs(name, pick, NoScript, ord, NoLine)),
                 [Op("unload") EXCEPT !.via = "py", !.name = name, !.p = pick])

\* /PY RELOAD <name>
Reload ==
    /\ phase = "active"
    /\ \E name \in NameArgs, script \in Scripts :
       \E pick \in IF name # <<>> /\ matching(World, name) # {}
                   THEN matching(World, name) ELSE {0} :
          /\ pick = 0 => script = NoScript
          /\ pick # 0 => PluginsMade(World) < MaxPluginObjs
          /\ HooksMade(World) + Len(script.hooks) <= MaxHookObjs
          /\ \E ord \in Perms(IF pick = 0 THEN {}
                              ELSE plugin_objs[pick].hooks \cup
                                   (IF script.outcome = "ok" THEN {}
                                    ELSE NewHooks(Len(script.hooks)))) :
                Commit(_on_py_command(World, "reload",
                           PyArgs(name, pick, script, ord, NoLine)),
                       [Op("reload") EXCEPT
                           !.via = "py",
                           !.name = name,
                           !.p = pick,
                           !.q = IF pick # 0 THEN PluginsMade(World) + 1 ELSE 0])

\* the host's timer fires
TimerTick ==
    /\ phase = "active"
    /\ \E h \in host_hooks, v \in TimerReturns \cup {"raise"} :
          /\ hook_objs[h].state = "live"
          /\ hook_objs[h].kind = "timer"
          /\ Commit(host_timer(World, h, v),
                    [Op("timer") EXCEPT !.h = h, !.v = v,
                                        !.p = hook_objs[h].plugin])

\* what a callback that runs /PY UNLOAD of its own Plugin's file hands over
OwnUnload(cb, p, ord) ==
    IF cb.do = "unload"
    THEN [cb EXCEPT !.args = PyArgs(plugin_objs[p].filename,
                                    IF p \in plugins THEN p ELSE 0,
                                    NoScript, ord, NoLine)]
    ELSE cb

\* the host runs a command a script has hooked
CommandTick ==
    /\ phase = "active"
    /\ \E h \in host_hooks, cb \in CallbackActs :
          /\ hook_objs[h].state = "live"
          /\ hook_objs[h].kind = "command"
          /\ cb.do = "hook" => HooksMade(World) < MaxHookObjs
          /\ cb.do = "load" => PluginsMade(World) < MaxPluginObjs
          /\ LET p == hook_objs[h].plugin
             IN  \E ord \in Perms(IF cb.do = "unload" /\ p \in plugins
                                  THEN plugin_objs[p].hooks ELSE {}) :
                    Commit(_on_command_hook(World, h, OwnUnload(cb, p, ord)),
                           [Op("command") EXCEPT !.h = h, !.v = cb.do,
                                                 !.handle = cb.handle,
                                                 !.p = p])

\* /PY EXEC <line>, and a line typed in the console
PyExec ==
    /\ phase = "active"
    /\ \E line \in ConsoleLines :
          /\ (line.do # "empty" /\ local_interp = 0) =>
                PluginsMade(World) < MaxPluginObjs
          /\ line.do = "hook" => HooksMade(World) < MaxHookObjs
          /\ Commit(_on_py_command(World, "exec",
                        PyArgs(<<>>, 0, NoScript, <<>>, line)),
                    [Op("exec") EXCEPT !.v = line.do])

\* the host deactivates the bridge
PluginDeinit ==
    /\ phase = "active"
    /\ \E pord \in Perms(plugins) :
       \E ord \in Perms(UNION {plugin_objs[p].hooks : p \in PluginIds}) :
          Commit(_on_plugin_deinit(World, pord, ord), Op("deinit"))

Next ==
    \/ PluginInit
    \/ Load
    \/ Unload
    \/ Reload
    \/ TimerTick
    \/ CommandTick
    \/ PyExec
    \/ PluginDeinit

Spec == Init /\ [][Next]_vars

(***************************************************************************)
(* The host's own LOAD, UNLOAD and RELOAD commands, which the bridge       *)
(* intercepts, next to the /PY forms of the same operations.               *)
(***************************************************************************)
\* LOAD <file>
GenericLoad ==
    /\ phase = "active"
    /\ \E filename \in LoadArgs, script \in Scripts :
          LET f == resolve(filename)
              acts == endswith_py(filename)
              fresh == ~\E p \in plugins : plugin_objs[p].filename = f
          IN  /\ ~acts => script = NoScript
              /\ ~fresh => script.hooks = <<>>
              /\ ~readable(f) => script = NoScript
              /\ (acts /\ fresh) => PluginsMade(World) < MaxPluginObjs
              /\ HooksMade(World) + Len(script.hooks) <= MaxHookObjs
              /\ \E ord \in Perms(IF script.outcome = "ok" THEN {}
                                  ELSE NewHooks(Len(script.hooks))) :
                    Commit(_on_load_command(World, filename, script, ord),
                           [Op("load") EXCEPT
                               !.via = "generic",
                               !.name = f,
                               !.q = IF fresh /\ acts
                                     THEN PluginsMade(World) + 1 ELSE 0])

\* UNLOAD <name>
GenericUnload ==
    /\ phase = "active"
    /\ \E name \in NameArgs :
       \E pick \in IF /\ endswith_py(name)
                      /\ matching(World, name) # {}
                   THEN matching(World, name) ELSE {0} :
       \E ord \in Perms(IF pick = 0 THEN {} ELSE plugin_objs[pick].hooks) :
          Commit(_on_unload_command(World, name, pick, ord),
                 [Op("unload") EXCEPT !.via = "generic", !.name = name,
                                      !.p = pick])

\* RELOAD <name>
GenericReload ==
    /\ phase = "active"
    /\ \E name \in NameArgs, script \in Scripts :
       \E pick \in IF /\ endswith_py(name)
                      /\ matching(World, name) # {}
                   THEN matching(World, name) ELSE {0} :
          /\ pick = 0 => script = NoScript
          /\ pick # 0 => PluginsMade(World) < MaxPluginObjs
          /\ HooksMade(World) + Len(script.hooks) <= MaxHookObjs
          /\ \E ord \in Perms(IF pick = 0 THEN {}
                              ELSE plugin_objs[pick].hooks \cup
                                   (IF script.outcome = "ok" THEN {}
                                    ELSE NewHooks(Len(script.hooks)))) :
                Commit(_on_reload_command(World, name, pick, script, ord),
                       [Op("reload") EXCEPT
                           !.via = "generic",
                           !.name = name,
                           !.p = pick,
                           !.q = IF pick # 0 THEN PluginsMade(World) + 1 ELSE 0])

NextIntercept ==
    \/ PluginInit
    \/ GenericLoad
    \/ GenericUnload
    \/ GenericReload
    \/ Load
    \/ Unload
    \/ Reload
    \/ TimerTick
    \/ CommandTick
    \/ PluginDeinit

SpecIntercept == Init /\ [][NextIntercept]_vars

(***************************************************************************)
(* create_wordlist on one raw array.                                       *)
(***************************************************************************)
InitWordlist ==
    /\ pc = "input"
    /\ arg \in RawArrays
    /\ ret = <<>>
    /\ buffer = <<>>
    /\ LifeInit

CallCreateWordlist ==
    /\ pc = "input"
    /\ pc' = "done"
    /\ ret' = create_wordlist(arg)
    /\ UNCHANGED <<arg, buffer>>
    /\ UNCHANGED lifeVars

NextWordlist == CallCreateWordlist

SpecWordlist == InitWordlist /\ [][NextWordlist]_vars

(***************************************************************************)
(* create_wordeollist on one word list.                                    *)
(***************************************************************************)
InitWordeol ==
    /\ pc = "input"
    /\ arg \in WordLists
    /\ ret = <<>>
    /\ buffer = <<>>
    /\ LifeInit

CallCreateWordeollist ==
    /\ pc = "input"
    /\ pc' = "done"
    /\ ret' = create_wordeollist(arg)
    /\ UNCHANGED <<arg, buffer>>
    /\ UNCHANGED lifeVars

NextWordeol == CallCreateWordeollist

SpecWordeol == InitWordeol /\ [][NextWordeol]_vars

(***************************************************************************)
(* A sequence of Stdout.write calls on one redirector.  arg keeps the text *)
(* of the last call and the buffer it found, ret the host prints it made.  *)
(***************************************************************************)
InitStdout ==
    /\ pc = "input"
    /\ arg = [string |-> <<>>, found |-> <<>>]
    /\ ret = <<>>
    /\ buffer = <<>>        \* Stdout.__init__
    /\ LifeInit

Write ==
    \E text \in WriteTexts :
        /\ Len(buffer) + Len(Encode(text)) <= MaxBuffer
        /\ LET r == Stdout_write(buffer, text)
           IN  /\ buffer' = r.buffer
               /\ ret' = r.prints
        /\ arg' = [string |-> text, found |-> buffer]
        /\ pc' = "done"
        /\ UNCHANGED lifeVars

NextStdout == Write

SpecStdout == InitStdout /\ [][NextStdout]_vars

(***************************************************************************)
(* Claims about the pure functions.                                        *)
(***************************************************************************)
\* slots 1..len are non-empty and slots len+1..31 are empty
IsPrefixForm(raw, len) ==
    /\ \A i \in 1..len : raw[i] # <<>>
    /\ \A i \in (len + 1)..LastSlot : raw[i] = <<>>

\* C8: for an array whose slots 1..L are non-empty and whose later slots are
\* empty, create_wordlist returns exactly L entries, entry k being slot k;
\* for L = 0 it returns the empty sequence.
C8_WordlistReturnsPrefix ==
    pc = "done" =>
        \A len \in 0..LastSlot :
            IsPrefixForm(arg, len) =>
                ret = [k \in 1..len |-> __decode(arg[k])]

\* C9 as stated: the result has the length of the word list, its last entry
\* is the last word, and every earlier entry is its word, a space, and the
\* next entry - empty words included.
C9_EolJoinsEveryWord ==
    pc = "done" =>
        /\ Len(ret) = Len(arg)
        /\ \A i \in 1..Len(arg) :
              ret[i] = IF i = Len(arg) THEN arg[i]
                       ELSE arg[i] \o <<SP>> \o ret[i + 1]

\* C9 (amended): the result has the length of the word list, its last entry
\* is the last word, and every earlier entry is its word, a space and the
\* next entry when the word is non-empty, and the next entry unchanged when
\* the word is empty; ["a","b","c"] gives ["a b c","b c","c"].
C9_EolSkipsEmptyWords ==
    pc = "done" =>
        /\ Len(ret) = Len(arg)
        /\ \A i \in 1..Len(arg) :
              ret[i] = IF i = Len(arg) THEN arg[i]
                       ELSE IF arg[i] # <<>> THEN arg[i] \o <<SP>> \o ret[i + 1]
                       ELSE ret[i + 1]
        /\ arg = <<<<97>>, <<98>>, <<99>>>> =>
              ret = <<<<97, SP, 98, SP, 99>>, <<98, SP, 99>>, <<99>>>>

C9_Witness ==
    /\ pc = "done"
    /\ arg = <<<<97>>, <<>>, <<99>>>>
    /\ ret = <<<<97, SP, 99>>, <<99>>, <<99>>>>

\* the 1-based position of the last newline of a text that has one
LastNewline(text) ==
    CHOOSE i \in 1..Len(text) :
        text[i] = NL /\ \A j \in (i + 1)..Len(text) : text[j] # NL

HasNewline(text) == \E i \in 1..Len(text) : text[i] = NL

\* C10: a write without a newline prints nothing and appends the text to
\* the buffer; a write with a newline makes exactly one host print, of the
\* retained buffer followed by the text before its last newline, and leaves
\* the text after that newline in the buffer; the buffer never holds a
\* newline; "partial" then "line\ndone" prints "partialline", keeps "done".
C10_WriteFlushesThroughLastNewline ==
    /\ ~HasNewline(buffer)
    /\ pc = "done" =>
        LET text == arg.string
            n == Len(text)
        IN  /\ ~HasNewline(text) =>
                  /\ ret = <<>>
                  /\ buffer = arg.found \o Encode(text)
            /\ HasNewline(text) =>
                  /\ Len(ret) = 1
                  /\ ret[1] = arg.found \o Encode(SubSeq(text, 1, LastNewline(text) - 1))
                  /\ buffer = Encode(SubSeq(text, LastNewline(text) + 1, n))
            /\ (arg.found = Encode(Partial) /\ text = LineDone) =>
                  /\ ret = <<Encode(PartialLine)>>
                  /\ buffer = Encode(Done)

C10_Witness ==
    /\ pc = "done"
    /\ arg = [string |-> LineDone, found |-> Encode(Partial)]
    /\ ret = <<Encode(PartialLine)>>
    /\ buffer = Encode(Done)

(***************************************************************************)
(* Claims about the plugin and hook lifecycle.                             *)
(***************************************************************************)
OnePluginPerPath ==
    \A p, q \in plugins :
        plugin_objs[p].filename = plugin_objs[q].filename => p = q

LoadOfActivePathChangesNothing ==
    (/\ last'.op = "load"
     /\ \E p \in plugins : plugin_objs[p].filename = last'.name)
    => /\ last'.result = "False"
       /\ UNCHANGED <<plugins, plugin_objs, hook_objs, host_hooks, host_gui>>

Places(t, e) == {i \in 1..Len(t) : t[i] = e}

UnloadHooksRunFirst ==
    \A p \in PluginIds :
        (plugin_objs[p].state = "live" /\ plugin_objs'[p].state = "dead") =>
            \A u \in plugin_objs[p].hooks :
                hook_objs[u].is_unload =>
                    /\ Places(trace', Ev("callback", u)) # {}
                    /\ \A i \in Places(trace', Ev("callback", u)) :
                       \A h \in plugin_objs[p].hooks :
                       \A j \in Places(trace', Ev("unhook", h)) : i < j

\* C2: in a handler that destroys a Plugin, the callback of every unload
\* hook of that Plugin is invoked, whether or not other callbacks raise, and
\* before any native handle of a hook of that Plugin is unhooked.
C2_UnloadHooksBeforeUnhook == [][UnloadHooksRunFirst]_vars

C2_Witness ==
    /\ last.op = "unload"
    /\ \E u, h \in HookIds :
          /\ Places(trace, Ev("caught", u)) # {}
          /\ Places(trace, Ev("unhook", h)) # {}
          /\ \A i \in Places(trace, Ev("caught", u)) :
             \A j \in Places(trace, Ev("unhook", h)) : i < j

\* a timer hook taken out of its set because its callback said stop
Demoted(h) == hook_objs[h].is_unload /\ hook_objs[h].hexchat_hook # 0

\* C3: the bridge unhooks the native handle of no Hook more than once, and
\* once the Plugin owning a registered Hook is destroyed it has unhooked
\* that handle exactly once, unless the Hook is a timer that had stopped.
C3_UnhookedOnce ==
    \A h \in HookIds :
        /\ unhook_calls[h] <= 1
        /\ (/\ hook_objs[h].state # "none"
            /\ hook_objs[h].hexchat_hook # 0
            /\ plugin_objs[hook_objs[h].plugin].state = "dead"
            /\ ~Demoted(h))
           => unhook_calls[h] = 1

C3_Witness ==
    \E h, t \in HookIds :
        /\ hook_objs[h].state = "dead" /\ ~Demoted(h)
        /\ plugin_objs[hook_objs[h].plugin].state = "dead"
        /\ unhook_calls[h] = 1
        /\ hook_objs[t].state = "dead" /\ Demoted(t)
        /\ plugin_objs[hook_objs[t].plugin].state = "dead"
        /\ unhook_calls[t] = 0

\* C4 as stated: every hook registered with the host is in the hook set of
\* a Plugin of the active set.
C4_HooksOfActivePlugins ==
    \A h \in host_hooks : \E p \in plugins : h \in plugin_objs[p].hooks

\* C4 (amended): every hook registered with the host is in the hook set of
\* a Plugin of the active set or of the console session's Plugin.
C4_HooksOfLivePlugins ==
    \A h \in host_hooks :
        \E p \in plugins \cup ({local_interp} \ {0}) :
            h \in plugin_objs[p].hooks

C4_Witness ==
    /\ last.op = "unload"
    /\ last.result = "True"
    /\ local_interp # 0
    /\ \E h \in host_hooks : h \in plugin_objs[local_interp].hooks
    /\ \E h \in HookIds : hook_objs[h].state = "dead" /\ unhook_calls[h] = 1

\* C5: in a reload of a name that matches, the old Plugin is torn down
\* (its unload callbacks run, its hooks unhooked, its GUI entry removed)
\* before the top-level code of the new Plugin runs.
C5_ReloadTearsDownFirst ==
    (last.op = "reload" /\ last.p # 0) =>
        /\ Places(trace, Ev("del_plugin", last.p)) # {}
        /\ \A i \in Places(trace, Ev("del_plugin", last.p)) :
           \A j \in Places(trace, Ev("exec", last.q)) : i < j
        /\ \A i \in Places(trace, Ev("gui_remove", last.p)) :
           \A j \in Places(trace, Ev("exec", last.q)) : i < j

RemoveHookRemoves ==
    (last'.op = "command" /\ last'.v = "unhook") =>
        LET p == last'.p
            x == last'.handle
        IN  IF x \in plugin_objs[p].hooks
            THEN /\ plugin_objs'[p].hooks = plugin_objs[p].hooks \ {x}
                 /\ x \notin host_hooks'
                 /\ last'.returned = hook_objs[x].userdata
            ELSE /\ Places(trace', Ev("print_not_found", x)) # {}
                 /\ UNCHANGED <<plugin_objs, host_hooks>>

\* C6: remove_hook with the handle of a Hook of the Plugin's set takes just
\* that Hook out of the set, unhooks it from the host and returns its
\* userdata; with any other handle it reports 'Hook not found' and leaves
\* the hook sets and the host's hooks as they were.
C6_RemoveHook == [][RemoveHookRemoves]_vars

\* C7: on a timer tick a callback returning a falsy value has its hook taken
\* out of the Plugin's set and the trampoline returns 0; a callback
\* returning a truthy value leaves the hook in the set and registered, and
\* the trampoline returns 1.
C7_TimerContinuesOnTruthy ==
    (last.op = "timer" /\ last.v # "raise") =>
        IF truthy(last.v)
        THEN /\ last.h \in plugin_objs[last.p].hooks
             /\ last.h \in host_hooks
             /\ last.code = 1
        ELSE /\ last.h \notin plugin_objs[last.p].hooks
             /\ last.code = 0

(***************************************************************************)
(* Claims about the redirector's scope, errors and the commands.           *)
(***************************************************************************)
\* C11: when a handler has returned, and with it every redirector scope it
\* entered, whether the script code inside returned or raised, sys.stdout
\* and sys.stderr are the original streams and not the redirector.
C11_StreamsRestoredOnExit == sys_stdout = "__stdout__"

\* C12: when the callback of a command or timer hook raises, the message is
\* printed through the redirector, the trampoline returns a value, and the
\* hook is still in its Plugin's hook set and still registered with the
\* host.
C12_CallbackExceptionContained ==
    (last.op \in {"command", "timer"} /\ last.v = "raise") =>
        /\ Places(trace, Ev("print_traceback", last.h)) # {}
        /\ last.code \in 0..3
        /\ hook_objs[last.h].state = "live"
        /\ last.h \in plugin_objs[last.p].hooks
        /\ last.h \in host_hooks

\* the Hooks a Plugin has registered with the host
RegisteredBy(p) ==
    {h \in HookIds : /\ hook_objs[h].state # "none"
                     /\ hook_objs[h].plugin = p
                     /\ hook_objs[h].hexchat_hook # 0}

\* C13: a load that fails (file unreadable or not compiling, top-level code
\* raising, __module_name__ missing) returns False and leaves the Plugin out
\* of the active set, without a GUI entry, and with none of the hooks its
\* top-level code registered still registered with the host.
C13_FailedLoadLeavesNothing ==
    /\ \A p \in PluginIds :
          Places(trace, Ev("print_failed", p)) # {} =>
              /\ p \notin plugins
              /\ p \notin host_gui
              /\ plugin_objs[p].state = "dead"
              /\ \A h \in RegisteredBy(p) : h \notin host_hooks
    /\ (/\ last.op \in {"load", "reload"}
        /\ last.q # 0
        /\ Places(trace, Ev("print_failed", last.q)) # {})
       => last.result = "False"

C13_Witness ==
    /\ last.op = "load"
    /\ last.result = "False"
    /\ last.q # 0
    /\ Places(trace, Ev("print_failed", last.q)) # {}
    /\ \E h \in RegisteredBy(last.q) :
          /\ Places(trace, Ev("hook", h)) # {}
          /\ unhook_calls[h] = 1
          /\ h \notin host_hooks

\* a name that is empty or is neither the name, the file name nor the base
\* name of the file of an active Plugin
NoMatch(name) ==
    \/ name = <<>>
    \/ \A p \in plugins :
          /\ name # plugin_objs[p].name
          /\ name # plugin_objs[p].filename
          /\ name # basename(plugin_objs[p].filename)

UnknownNameIsNoOp ==
    (/\ last'.op \in {"unload", "reload"}
     /\ last'.via = "py" \/ endswith_py(last'.name)
     /\ NoMatch(last'.name))
    => /\ last'.result = "False"
       /\ UNCHANGED <<plugins, plugin_objs, hook_objs, host_hooks, host_gui>>
       /\ \A i \in 1..Len(trace') : trace'[i].ev # "callback"

\* C14: unload_name and reload_name of an empty name, or of a name that
\* matches no active Plugin, return False and leave the active set, the
\* Plugins with their hook sets, the Hooks, the host's hooks and the GUI
\* entries as they were, and no callback runs.
C14_UnknownNameIsNoOp == [][UnknownNameIsNoOp]_vars

C14_Witness ==
    /\ last.op = "reload"
    /\ last.via = "py"
    /\ last.name = <<<<"gamma", "">>>>
    /\ last.result = "False"
    /\ trace = <<>>
    /\ plugins # {}
    /\ host_hooks # {}

\* C15: when the import of the hexchat module fails, _on_plugin_init
\* returns 0, hooks none of the bridge's commands, makes no redirector and
\* loads nothing: no Plugin is made and the active set is empty.
C15_ImportFailureDeclines ==
    (last.op = "init" /\ last.v = "import_error") =>
        /\ last.code = 0
        /\ phase = "failed"
        /\ host_commands = {}
        /\ hexchat_stdout = FALSE
        /\ plugins = {}
        /\ \A p \in PluginIds : plugin_objs[p].state = "none"
        /\ \A i \in 1..Len(trace) :
              trace[i].ev \notin {"print_autoloading", "exec"}

C15_Witness ==
    /\ last.op = "init"
    /\ last.v = "import_error"
    /\ last.code = 0
    /\ Places(trace, Ev("stderr_traceback", 0)) # {}
    /\ host_commands = {}

InterceptorsActOnPyOnly ==
    (last'.op \in {"load", "unload", "reload"} /\ last'.via = "generic") =>
        IF endswith_py(last'.name)
        THEN /\ last'.code = EAT_ALL
             /\ last'.result \in {"True", "False"}
             /\ (last'.op = "unload" /\ ~NoMatch(last'.name)) =>
                   /\ last'.result = "True"
                   /\ last'.p \in plugins
                   /\ plugins' = plugins \ {last'.p}
        ELSE /\ last'.code = EAT_NONE
             /\ UNCHANGED <<plugins, plugin_objs, hook_objs, host_hooks,
                            host_gui>>
             /\ trace' = <<>>

\* C16: _on_load_command, _on_unload_command and _on_reload_command run the
\* operation and return EAT_ALL, whatever the operation returned, when the
\* file name ends in '.py' (for load, last.name is the resolved file name,
\* which ends in '.py' exactly when the argument does); for any other file
\* name they return EAT_NONE and leave the active set, the Plugins, the
\* Hooks, the host's hooks and the GUI entries as they were.
C16_InterceptorsActOnPyOnly == [][InterceptorsActOnPyOnly]_vars

C16_Witness ==
    /\ last.op = "unload"
    /\ last.via = "generic"
    /\ last.name = <<<<"alpha", "">>>>
    /\ last.code = EAT_NONE
    /\ \E p \in plugins : plugin_objs[p].name = last.name
    /\ host_hooks # {}

\* C17: in a trampoline, the native handle of the hook being called is not
\* unhooked before the trampoline has returned to the host, and it is
\* unhooked at most once.
C17_NoUnhookDuringCallback ==
    (last.op \in {"command", "timer"}) =>
        /\ unhook_calls[last.h] <= 1
        /\ \A j \in Places(trace, Ev("unhook", last.h)) :
           \A r \in Places(trace, Ev("return", last.h)) : r < j

\* C18: whenever script code goes on running after a call it made into the
\* bridge (a load, an unload) has returned, sys.stdout and sys.stderr are
\* still the redirector.
C18_RedirectedThroughoutCall ==
    \A i \in 1..Len(trace) : trace[i].ev # "resume_plain"

DeinitTearsDown ==
    last'.op = "deinit" =>
        /\ last'.code = 1
        /\ plugins' = {}
        /\ local_interp' = 0
        /\ host_hooks' = {}
        /\ host_gui' = {}
        /\ \A p \in PluginIds : plugin_objs'[p].state # "live"
        /\ \A h \in HookIds : hook_objs'[h].state # "live"
        /\ \A p \in plugins :
           \A u \in plugin_objs[p].hooks :
              hook_objs[u].is_unload =>
                  /\ Places(trace', Ev("callback", u)) # {}
                  /\ \A i \in Places(trace', Ev("callback", u)) :
                     \A h \in plugin_objs[p].hooks :
                     \A j \in Places(trace', Ev("unhook", h)) : i < j

\* C19: when _on_plugin_deinit returns, the active set is empty, every
\* Plugin that was active has had each of its unload callbacks run before
\* any of its hooks was unhooked, no hook is registered with the host, no
\* GUI entry is left, and the console session is gone: no Plugin and no
\* Hook is alive.
C19_DeinitTearsDown == [][DeinitTearsDown]_vars

C19_Witness ==
    /\ last.op = "deinit"
    /\ \E p, c \in PluginIds : \E h, k \in HookIds :
          /\ p # c
          /\ Places(trace, Ev("gui_remove", p)) # {}
          /\ Places(trace, Ev("gui_remove", c)) = {}
          /\ Places(trace, Ev("del_plugin", c)) # {}
          /\ hook_objs[h].plugin = p
          /\ hook_objs[k].plugin = c
          /\ Places(trace, Ev("callback", h)) # {}
          /\ Places(trace, Ev("unhook", k)) # {}

ConsoleIsLazySingleton ==
    last'.op = "exec" =>
        /\ last'.result = "None"
        /\ last'.code = EAT_ALL
        /\ IF last'.v = "empty"
           THEN /\ UNCHANGED <<local_interp, plugin_objs, hook_objs,
                               host_hooks>>
                /\ trace' = <<>>
           ELSE /\ local_interp' # 0
                /\ plugin_objs'[local_interp'].state = "live"
                /\ local_interp' \notin plugins'
                /\ IF local_interp = 0
                   THEN plugin_objs[local_interp'].state = "none"
                   ELSE /\ local_interp' = local_interp
                        /\ plugin_objs[local_interp].locals \subseteq
                              plugin_objs'[local_interp'].locals
                        /\ (last'.v = "use" /\
                            "x" \in plugin_objs[local_interp].locals)
                           => Places(trace', Ev("print_value", local_interp))
                                 # {}
                /\ last'.v = "bind" =>
                      "x" \in plugin_objs'[local_interp'].locals
                /\ last'.v = "raise" =>
                      Places(trace', Ev("print_exception", local_interp'))
                         # {}

\* C20: exec_in_interp of an empty line does nothing and makes no session;
\* of the first non-empty line makes the session; of every later line uses
\* that same session, whose namespace keeps the names bound by earlier
\* lines (a line using a bound name prints its value), also after a line
\* that raised, whose exception is printed and not propagated.
C20_ConsoleIsLazySingleton == [][ConsoleIsLazySingleton]_vars

C20_Witness ==
    /\ last.op = "exec"
    /\ last.v = "use"
    /\ local_interp # 0
    /\ "x" \in plugin_objs[local_interp].locals
    /\ Places(trace, Ev("print_value", local_interp)) # {}

====
